---- MODULE Spec2Model ----
(***************************************************************************)
(* The host-side ROM protocol engine of espflash (Flasher, flasher.rs) as  *)
(* a state machine: connect (reset, sync, chip detect, enable flash, flash *)
(* detect, baud change), load_elf_to_ram and load_elf_to_flash, driving a  *)
(* Connection whose device side answers nondeterministically.              *)
(*                                                                         *)
(* 32-bit words are kept as their two's complement bit pattern, so a word  *)
(* with bit 31 set is a negative number here (0xFFFFFFFF is -1); equality  *)
(* and bit extraction by floor division are those of the u32.              *)
(***************************************************************************)
EXTENDS Integers, Sequences, FiniteSets, TLC

\* ------------------------------------------------------------ constants

MAX_RAM_BLOCK_SIZE == 6144
FLASH_SECTOR_SIZE == 4096
FLASH_BLOCK_SIZE == 256
FLASH_SECTORS_PER_BLOCK == FLASH_SECTOR_SIZE \div FLASH_BLOCK_SIZE
FLASH_WRITE_SIZE == 1024

UART_DATE_REG_ADDR == 1610612856
UART_DATE_REG2_ADDR == 1061159028

\* enum Command
FlashBegin == 2
FlashData == 3
FlashEnd == 4
MemBegin == 5
MemEnd == 6
MemData == 7
Sync == 8
WriteReg == 9
ReadReg == 10
SpiAttach == 13
ChangeBaud == 15

\* the loop limits of sync and start_connection, and of the poll of spi_command
SYNC_POLLS == 100
SYNC_DRAINS == 7
SYNC_ATTEMPTS == 10
SPI_POLL_LIMIT == 10

\* the timeouts, in milliseconds
SYNC_TIMEOUT == 100
CONNECT_TIMEOUT == 3000
\* the timeout of a fresh Connection (the port's own)
PORT_TIMEOUT == 1000
\* "default baud is always 115200"
DEFAULT_BAUD == 115200

Chips == {"Esp8266", "Esp32", "Esp32c3"}

\* CHIP_DETECT_MAGIC_VALUE of the three chips (0xfff0c101, 0x00f01d83, 0x6921506f)
MAGIC_ESP8266 == -999167
MAGIC_ESP32 == 15736195
MAGIC_ESP32C3 == 1763790959

BIT31 == (-2147483647) - 1
MASK_ALL == -1

Bit(v, k) == (v \div (2 ^ k)) % 2

\* ------------------------------------------------------------ results

OkResult == [kind |-> "Ok", code |-> 0]
Err(k, c) == [kind |-> k, code |-> c]
NoResult == [kind |-> "running", code |-> 0]

\* ------------------------------------------------------------ chip policy

\* Chip::from_magic_value
from_magic_value(value) ==
    IF value = MAGIC_ESP8266 THEN "Esp8266"
    ELSE IF value = MAGIC_ESP32 THEN "Esp32"
    ELSE IF value = MAGIC_ESP32C3 THEN "Esp32c3"
    ELSE "None"

\* Chip::from_regs: the variant whose magic matches either value
from_regs(value1, value2) ==
    IF from_magic_value(value1) # "None" THEN from_magic_value(value1)
    ELSE from_magic_value(value2)

\* SPI_REGISTERS of each chip
SPI_REGISTERS(c) ==
    IF c = "Esp8266" THEN
        [base |-> 1610613248, usr_offset |-> 28, usr1_offset |-> 32, usr2_offset |-> 36,
         w0_offset |-> 64, has_length |-> FALSE, mosi_length_offset |-> 0,
         miso_length_offset |-> 0]
    ELSE IF c = "Esp32" THEN
        [base |-> 1072963584, usr_offset |-> 28, usr1_offset |-> 32, usr2_offset |-> 36,
         w0_offset |-> 128, has_length |-> TRUE, mosi_length_offset |-> 40,
         miso_length_offset |-> 44]
    ELSE
        [base |-> 1610620928, usr_offset |-> 24, usr1_offset |-> 28, usr2_offset |-> 32,
         w0_offset |-> 88, has_length |-> TRUE, mosi_length_offset |-> 36,
         miso_length_offset |-> 40]

\* impl SpiRegisters
cmd(r) == r.base
usr(r) == r.base + r.usr_offset
usr1(r) == r.base + r.usr1_offset
usr2(r) == r.base + r.usr2_offset
w0(r) == r.base + r.w0_offset
mosi_length(r) == r.base + r.mosi_length_offset
miso_length(r) == r.base + r.miso_length_offset

\* ------------------------------------------------------------ FlashSize

FlashSizes ==
    {"Flash256KB", "Flash512KB", "Flash1MB", "Flash2MB", "Flash4MB", "Flash8MB",
     "Flash16MB"}

\* FlashSize::from: "None" stands for Err(UnsupportedFlash(value))
FlashSize_from(value) ==
    IF value = 18 THEN "Flash256KB"
    ELSE IF value = 19 THEN "Flash512KB"
    ELSE IF value = 20 THEN "Flash1MB"
    ELSE IF value = 21 THEN "Flash2MB"
    ELSE IF value = 22 THEN "Flash4MB"
    ELSE IF value = 23 THEN "Flash8MB"
    ELSE IF value = 24 THEN "Flash16MB"
    ELSE "None"

\* size_id with the shift of a byte instead of two
size_id_shift8(flash_id) == (flash_id \div 256) % 256

\* `flash_id >> 16` followed by `as u8`
size_id(flash_id) == (flash_id \div 65536) % 256

\* enum FlashSize: the size-ID byte of each variant
FlashSizeId(fs) ==
    CASE fs = "Flash256KB" -> 18
      [] fs = "Flash512KB" -> 19
      [] fs = "Flash1MB" -> 20
      [] fs = "Flash2MB" -> 21
      [] fs = "Flash4MB" -> 22
      [] fs = "Flash8MB" -> 23
      [] fs = "Flash16MB" -> 24

\* ------------------------------------------------------------ frames

\* a request frame as written to the wire: opcode, the u32 parameters of its
\* payload, and for a block command <<data.len(), padding, padding_byte,
\* declared length>>
Frame(op, args, data) == [ev |-> "write", op |-> op, args |-> args, data |-> data]
\* a successful transport operation that writes no frame (a flush is kept in
\* the variable flushed instead)
Event(name) == [ev |-> name, op |-> 0, args |-> <<>>, data |-> <<>>]
\* a response frame
Response(op, status, error, value) ==
    [return_op |-> op, status |-> status, error |-> error, value |-> value]

\* ------------------------------------------------------------ inputs

\* how many trailing Sync acknowledgements the ROM may send after the first
EchoCounts == {0, 1, 6, 7, 8}
\* what the device may hold in a UART date register
UartDateVals == {0, MAGIC_ESP8266, MAGIC_ESP32, MAGIC_ESP32C3}
\* JEDEC ids the flash may answer: 0x124000, 0x134000, 0x144000, 0x154000,
\* 0x164000, 0x1174000 (bit 24 set), 0x18ffff, and the unknown 0x114000, 0x194000, 0
FlashIds ==
    {1196032, 1261568, 1327104, 1392640, 1458176, 18300928, 1638399, 1130496,
     1654784, 0}
\* values of usr and usr2 before the session
DevRegVals == {5}
\* the error byte of a failing response
RomErrorCodes == {6}
\* baud rates a caller may ask for
Speeds == {0, 115200, 921600}

\* how many segments an image may have
MaxSegs == 2
SeqsUpTo(S, n) == UNION {[1..k -> S] : k \in 0..n}

\* the ram segments of an image: lengths 0, 3, 4, 7, 0x17fd, 0x1800, 0x1802,
\* 0x3000 at 0x40080000
RamLens == {0, 3, 4, 7, 6141, 6144, 6146, 12288}
RamSegments == {[addr |-> 1074266112, len |-> n, ok |-> TRUE] : n \in RamLens}
RamImages == SeqsUpTo(RamSegments, MaxSegs)
\* entry points
Entries == {0, 1074266112}

\* what get_flash_segments may yield: a segment, or an error of the layout
FlashSegments ==
    {[addr |-> 65536, len |-> 2049, ok |-> TRUE],
     [addr |-> 0, len |-> 0, ok |-> TRUE],
     [addr |-> 0, len |-> 1, ok |-> TRUE],
     [addr |-> 4096, len |-> 1024, ok |-> TRUE],
     [addr |-> 20480, len |-> 4096, ok |-> TRUE],
     [addr |-> 0, len |-> 1025, ok |-> TRUE],
     [addr |-> 0, len |-> 0, ok |-> FALSE]}
FlashImages == SeqsUpTo(FlashSegments, MaxSegs)
\* the flash sizes a connected Flasher is checked with
LoadFlashSizes == {"Flash2MB", "Flash4MB"}

\* ------------------------------------------------------------ state

VARIABLES
    call,         \* the public operation running (or last run)
    pc,           \* the engine's position in it
    result,       \* what the operation returned
    flasher,      \* TRUE once connect has returned a Flasher
    chip,         \* Flasher.chip
    flash_size,   \* Flasher.flash_size
    timeout,      \* the Connection's read timeout (ms)
    baud,         \* the local port's baud rate
    pending,      \* opcode Connection::command is reading the response of (0: none)
    ret,          \* value of the last response Connection::command returned
    loc,          \* locals of the running operation
    trace,        \* what the engine did to the transport during this call, in order
    steps,        \* the sub-operations of this call that returned Ok, in order
    outstanding,  \* requests other than Sync written in this call whose response the engine has not read
    flushed,      \* the input was flushed and no request has been written since
    synced,       \* a Sync response of status 0 has been read in this call
    rx,           \* response frames the device has sent and the host has not read
    mem,          \* the device's usr and usr2 registers
    busy          \* the device's SPI controller is executing a user command

vars ==
    <<call, pc, result, flasher, chip, flash_size, timeout, baud, pending, ret, loc,
      trace, steps, outstanding, flushed, synced, rx, mem, busy>>

LocInit ==
    [attempts |-> 0, polls |-> 0, drains |-> 0, saved_timeout |-> 0,
     reg1 |-> 0, reg2 |-> 0, old_spi_usr |-> 0, old_spi_usr2 |-> 0, i |-> 0,
     flash_id |-> 0, speed |-> 0, valid |-> TRUE, has_rom |-> FALSE,
     image_flash_size |-> "Flash4MB", segs |-> <<>>, si |-> 1, bi |-> 0,
     padding |-> 0, block_count |-> 0, entry |-> 0,
     command_op |-> 0, data |-> <<>>, padding_byte |-> 0, check |-> 0,
     sent |-> 0, reads |-> 0, consumed |-> 0, offset |-> 0, size |-> 0]

SavedRegs == UNION {{usr(SPI_REGISTERS(c)), usr2(SPI_REGISTERS(c))} : c \in Chips}
UsrRegs == {usr(SPI_REGISTERS(c)) : c \in Chips}
CmdRegs == {cmd(SPI_REGISTERS(c)) : c \in Chips}
W0Regs == {w0(SPI_REGISTERS(c)) : c \in Chips}

\* Flasher::connect, lines 119-123: the Flasher under construction
Init ==
    /\ call = "connect"
    /\ pc = "start_connection"
    /\ result = NoResult
    /\ flasher = FALSE
    /\ chip = "Esp8266"
    /\ flash_size = "Flash4MB"
    /\ timeout = PORT_TIMEOUT
    /\ baud = DEFAULT_BAUD
    /\ pending = 0
    /\ ret = 0
    /\ loc = LocInit
    /\ trace = <<>>
    /\ steps = <<>>
    /\ outstanding = 0
    /\ flushed = FALSE
    /\ synced = FALSE
    /\ rx = <<>>
    /\ \E v \in DevRegVals : mem = [a \in SavedRegs |-> IF a \in UsrRegs THEN v ELSE v + 1]
    /\ busy = FALSE

\* ------------------------------------------------------------ the device

SetBit18(v) == IF Bit(v, 18) = 1 THEN v ELSE v + 2 ^ 18

\* what the device may do with one request: the frames it sends back and the
\* state it is left in.  It may stay silent, report an error, or execute the
\* request.
DeviceOutcomes(f) ==
    LET same == [replies |-> <<>>, mem |-> mem, busy |-> busy]
        fails ==
            [same EXCEPT !.replies =
                <<Response(f.op, 1, CHOOSE e \in RomErrorCodes : TRUE, 0)>>]
        ok(v) == [same EXCEPT !.replies = <<Response(f.op, 0, 0, v)>>]
    IN  IF f.op = Sync THEN
            {same, fails} \cup
            {[same EXCEPT !.replies = [k \in 1..(n + 1) |-> Response(Sync, 0, 0, 0)]] :
                n \in EchoCounts}
        ELSE IF f.op = ReadReg THEN
            LET a == f.args[1] IN
            {same, fails} \cup
            (IF a \in {UART_DATE_REG_ADDR, UART_DATE_REG2_ADDR} THEN
                 {ok(v) : v \in UartDateVals}
             ELSE IF a \in W0Regs THEN {ok(v) : v \in FlashIds}
             ELSE IF a \in UsrRegs /\ busy THEN
                 {ok(SetBit18(mem[a])), [ok(mem[a]) EXCEPT !.busy = FALSE]}
             ELSE IF a \in SavedRegs THEN {ok(mem[a])}
             ELSE {ok(0)})
        ELSE IF f.op = WriteReg THEN
            LET a == f.args[1]
                v == f.args[2]
                m == IF a \in SavedRegs THEN [mem EXCEPT ![a] = v] ELSE mem
            IN  {same, fails} \cup
                (IF a \in CmdRegs /\ Bit(v, 18) = 1 THEN
                     {[ok(0) EXCEPT !.mem = m, !.busy = b] : b \in BOOLEAN}
                 ELSE {[ok(0) EXCEPT !.mem = m]})
        ELSE {same, fails, ok(0)}

\* ------------------------------------------------------------ Connection

\* the public operation returns r
Return(r) ==
    /\ pc' = "done"
    /\ result' = r
    /\ pending' = 0

\* Connection::write_command has put frame f on the wire and the device has
\* reacted as d
Transmit(f, d) ==
    /\ trace' = Append(trace, f)
    /\ rx' = rx \o d.replies
    /\ mem' = d.mem
    /\ busy' = d.busy
    /\ outstanding' = outstanding + (IF f.op = Sync THEN 0 ELSE 1)
    /\ flushed' = FALSE

Silent == [replies |-> <<>>, mem |-> mem, busy |-> busy]

\* Connection::command, first half: emit the request, then go and read its
\* response; a transport error ends the operation (every caller uses `?`)
command(f, next) ==
    /\ pending = 0
    /\ \E io \in BOOLEAN : \E d \in (IF io THEN {Silent} ELSE DeviceOutcomes(f)) :
        IF io
        THEN /\ Return(Err("IoError", 0))
             /\ UNCHANGED <<trace, rx, mem, busy, outstanding, flushed>>
        ELSE /\ Transmit(f, d)
             /\ pending' = f.op
             /\ pc' = next
             /\ UNCHANGED result

\* Connection::write_command used alone: emit the request, read nothing
write_command(f, next, res) ==
    /\ pending = 0
    /\ \E io \in BOOLEAN : \E d \in (IF io THEN {Silent} ELSE DeviceOutcomes(f)) :
        IF io
        THEN /\ Return(Err("IoError", 0))
             /\ UNCHANGED <<trace, rx, mem, busy, outstanding, flushed>>
        ELSE /\ Transmit(f, d)
             /\ pending' = 0
             /\ pc' = next
             /\ result' = res

\* Connection::command, second half: read responses until one whose return_op
\* is the request's; status 1 is RomError(code), otherwise its value is returned
command_response ==
    /\ pending # 0
    /\ \E io \in BOOLEAN :
        IF io
        THEN /\ Return(Err("IoError", 0))
             /\ UNCHANGED <<rx, ret, outstanding>>
        ELSE /\ rx # <<>>
             /\ rx' = Tail(rx)
             /\ IF Head(rx).return_op = pending
                THEN /\ outstanding' = outstanding - 1
                     /\ IF Head(rx).status = 1
                        THEN Return(Err("RomError", Head(rx).error)) /\ UNCHANGED ret
                        ELSE /\ pending' = 0
                             /\ ret' = Head(rx).value
                             /\ UNCHANGED <<pc, result>>
                ELSE UNCHANGED <<pc, result, pending, ret, outstanding>>
    /\ UNCHANGED <<call, synced, flushed, flasher, chip, flash_size, timeout, baud, loc, trace, steps,
                   mem, busy>>

\* ------------------------------------------------------------ connect

\* what an engine step leaves alone besides what command/write_command set
Keep(vs) == UNCHANGED vs

\* sync has failed inside start_connection's loop: the scoped timeout is
\* restored and the next attempt begins
SyncFailed(t) ==
    /\ timeout' = t
    /\ loc' = [loc EXCEPT !.attempts = @ + 1, !.polls = 0, !.drains = 0,
                          !.sent = 0, !.reads = 0, !.consumed = 0]
    /\ pc' = "sync_attempt"

\* start_connection, line 200: connection.reset_to_flash()?
reset_to_flash ==
    /\ pc = "start_connection"
    /\ \E io \in BOOLEAN :
        IF io
        THEN Return(Err("IoError", 0)) /\ UNCHANGED <<trace, steps>>
        ELSE /\ trace' = Append(trace, Event("reset_to_flash"))
             /\ steps' = Append(steps, "reset_to_flash")
             /\ pc' = "sync_attempt"
             /\ UNCHANGED <<result, pending>>
    /\ UNCHANGED <<call, synced, flasher, chip, flash_size, timeout, baud, ret, loc,
                   outstanding, flushed, rx, mem, busy>>

\* start_connection, lines 201-202: the next of the 10 attempts flushes the input
start_connection_flush ==
    /\ pc = "sync_attempt"
    /\ loc.attempts < SYNC_ATTEMPTS
    /\ \E io \in BOOLEAN :
        IF io
        THEN Return(Err("IoError", 0)) /\ UNCHANGED <<rx, flushed>>
        ELSE /\ rx' = <<>>
             /\ flushed' = TRUE
             /\ pc' = "sync"
             /\ UNCHANGED <<result, pending>>
    /\ UNCHANGED <<call, synced, flasher, chip, flash_size, timeout, baud, ret, loc,
                   trace, steps, outstanding, mem, busy>>

\* start_connection, line 207: no attempt succeeded
start_connection_failed ==
    /\ pc = "sync_attempt"
    /\ loc.attempts = SYNC_ATTEMPTS
    /\ Return(Err("ConnectionFailed", 0))
    /\ UNCHANGED <<call, synced, flasher, chip, flash_size, timeout, baud, ret, loc, trace,
                   steps, outstanding, flushed, rx, mem, busy>>

\* the 36 bytes of the Sync payload as nine little-endian words
SyncPayload == <<538052359, 1431655765, 1431655765, 1431655765, 1431655765,
                 1431655765, 1431655765, 1431655765, 1431655765>>

\* sync, lines 163-171: under a 100 ms timeout, write the Sync request
sync_write ==
    /\ pc = "sync"
    /\ \E io \in BOOLEAN :
        \E d \in (IF io THEN {Silent} ELSE DeviceOutcomes(Frame(Sync, SyncPayload, <<>>))) :
        IF io
        THEN /\ SyncFailed(timeout)
             /\ UNCHANGED <<trace, rx, mem, busy, outstanding, flushed>>
        ELSE /\ Transmit(Frame(Sync, SyncPayload, <<>>), d)
             /\ timeout' = SYNC_TIMEOUT
             /\ loc' = [loc EXCEPT !.saved_timeout = timeout, !.polls = 0,
                                   !.sent = Len(d.replies), !.reads = 0, !.consumed = 0]
             /\ pc' = "sync_poll"
    /\ UNCHANGED <<call, synced, result, flasher, chip, flash_size, baud, pending, ret, steps>>

\* sync, lines 173-185: one read_response of the up to 100 that wait for the
\* acknowledgement
sync_poll ==
    /\ pc = "sync_poll"
    /\ loc.polls < SYNC_POLLS
    /\ \E io \in BOOLEAN :
        IF io
        THEN SyncFailed(loc.saved_timeout) /\ UNCHANGED <<rx, flushed, synced>>
        ELSE IF rx = <<>>
        THEN /\ loc' = [loc EXCEPT !.polls = @ + 1, !.reads = @ + 1]
             /\ UNCHANGED <<pc, timeout, rx, flushed, synced>>
        ELSE IF Head(rx).return_op = Sync
        THEN IF Head(rx).status = 1
             THEN /\ SyncFailed(loc.saved_timeout)
                  /\ rx' = <<>>
                  /\ flushed' = TRUE
                  /\ UNCHANGED synced
             ELSE /\ rx' = Tail(rx)
                  /\ synced' = TRUE
                  /\ timeout' = loc.saved_timeout
                  /\ loc' = [loc EXCEPT !.polls = 0, !.drains = 0, !.reads = @ + 1,
                                        !.consumed = @ + 1]
                  /\ pc' = "sync_drain"
                  /\ UNCHANGED flushed
        ELSE /\ rx' = Tail(rx)
             /\ loc' = [loc EXCEPT !.polls = @ + 1, !.reads = @ + 1, !.consumed = @ + 1]
             /\ UNCHANGED <<pc, timeout, flushed, synced>>
    /\ UNCHANGED <<call, result, flasher, chip, flash_size, baud, pending, ret, trace,
                   steps, outstanding, mem, busy>>

\* sync, lines 185-187: the 100 reads are used up; the closure returns Ok(())
sync_poll_end ==
    /\ pc = "sync_poll"
    /\ loc.polls = SYNC_POLLS
    /\ timeout' = loc.saved_timeout
    /\ loc' = [loc EXCEPT !.polls = 0, !.drains = 0]
    /\ pc' = "sync_drain"
    /\ UNCHANGED <<call, synced, result, flasher, chip, flash_size, baud, pending, ret, trace,
                   steps, outstanding, flushed, rx, mem, busy>>

\* sync, lines 188-195: one read_response of the 7 x 100 that drain the echoes
sync_drain ==
    /\ pc = "sync_drain"
    /\ loc.drains < SYNC_DRAINS
    /\ \E io \in BOOLEAN :
        IF io
        THEN SyncFailed(timeout) /\ UNCHANGED rx
        ELSE IF rx # <<>>
        THEN /\ rx' = Tail(rx)
             /\ loc' = [loc EXCEPT !.drains = @ + 1, !.polls = 0, !.reads = @ + 1,
                                   !.consumed = @ + 1]
             /\ UNCHANGED <<pc, timeout>>
        ELSE /\ loc' = IF loc.polls + 1 = SYNC_POLLS
                       THEN [loc EXCEPT !.drains = @ + 1, !.polls = 0, !.reads = @ + 1]
                       ELSE [loc EXCEPT !.polls = @ + 1, !.reads = @ + 1]
             /\ UNCHANGED <<pc, timeout, rx>>
    /\ UNCHANGED <<call, synced, result, flasher, chip, flash_size, baud, pending, ret, trace,
                   steps, outstanding, flushed, mem, busy>>

\* sync_done after six rounds of the drain loop
sync_done_early ==
    /\ pc = "sync_drain"
    /\ loc.drains = SYNC_DRAINS - 1
    /\ steps' = Append(steps, "sync")
    /\ loc' = LocInit
    /\ pc' = "set_timeout"
    /\ UNCHANGED <<call, synced, result, flasher, chip, flash_size, timeout, baud, pending, ret,
                   trace, outstanding, flushed, rx, mem, busy>>

\* sync, line 196, and start_connection, lines 203-205: sync returned Ok
sync_done ==
    /\ pc = "sync_drain"
    /\ loc.drains = SYNC_DRAINS
    /\ steps' = Append(steps, "sync")
    /\ loc' = LocInit
    /\ pc' = "set_timeout"
    /\ UNCHANGED <<call, synced, result, flasher, chip, flash_size, timeout, baud, pending, ret,
                   trace, outstanding, flushed, rx, mem, busy>>

\* connect going on to chip_detect with the timeout left as it was
set_timeout_skipped ==
    /\ pc = "set_timeout"
    /\ \E io \in BOOLEAN :
        IF io
        THEN Return(Err("IoError", 0)) /\ UNCHANGED <<timeout, trace>>
        ELSE /\ trace' = Append(trace, Event("set_timeout"))
             /\ pc' = "chip_detect"
             /\ UNCHANGED <<result, pending, timeout>>
    /\ UNCHANGED <<call, synced, flasher, chip, flash_size, baud, ret, loc, steps,
                   outstanding, flushed, rx, mem, busy>>

\* connect, line 125: connection.set_timeout(3 s)?
set_timeout ==
    /\ pc = "set_timeout"
    /\ \E io \in BOOLEAN :
        IF io
        THEN Return(Err("IoError", 0)) /\ UNCHANGED <<timeout, trace>>
        ELSE /\ timeout' = CONNECT_TIMEOUT
             /\ trace' = Append(trace, Event("set_timeout"))
             /\ pc' = "chip_detect"
             /\ UNCHANGED <<result, pending>>
    /\ UNCHANGED <<call, synced, flasher, chip, flash_size, baud, ret, loc, steps,
                   outstanding, flushed, rx, mem, busy>>

\* Flasher::read_reg
read_reg(reg, next) == command(Frame(ReadReg, <<reg>>, <<>>), next)

\* Flasher::write_reg, always called with mask None
write_reg(addr, value, next) ==
    command(Frame(WriteReg, <<addr, value, MASK_ALL, 0>>, <<>>), next)

\* chip_detect, line 146
chip_detect_reg1 ==
    /\ pc = "chip_detect"
    /\ read_reg(UART_DATE_REG_ADDR, "chip_detect_reg2")
    /\ UNCHANGED <<call, synced, flasher, chip, flash_size, timeout, baud, ret, loc, steps>>

\* chip_detect_reg2 reading the first date register again
chip_detect_reg2_same ==
    /\ pc = "chip_detect_reg2"
    /\ read_reg(UART_DATE_REG_ADDR, "chip_detect_bind")
    /\ loc' = [loc EXCEPT !.reg1 = ret]
    /\ UNCHANGED <<call, synced, flasher, chip, flash_size, timeout, baud, ret, steps>>

\* chip_detect, line 147
chip_detect_reg2 ==
    /\ pc = "chip_detect_reg2"
    /\ read_reg(UART_DATE_REG2_ADDR, "chip_detect_bind")
    /\ loc' = [loc EXCEPT !.reg1 = ret]
    /\ UNCHANGED <<call, synced, flasher, chip, flash_size, timeout, baud, ret, steps>>

\* chip_detect, lines 148-151
chip_detect_bind ==
    /\ pc = "chip_detect_bind"
    /\ pending = 0
    /\ loc' = [loc EXCEPT !.reg2 = ret]
    /\ IF from_regs(loc.reg1, ret) = "None"
       THEN Return(Err("UnrecognizedChip", 0)) /\ UNCHANGED <<chip, steps>>
       ELSE /\ chip' = from_regs(loc.reg1, ret)
            /\ steps' = Append(steps, "chip_detect")
            /\ pc' = "enable_flash"
            /\ UNCHANGED <<result, pending>>
    /\ UNCHANGED <<call, synced, flasher, flash_size, timeout, baud, ret, trace, outstanding, flushed,
                   rx, mem, busy>>

\* enable_flash, lines 283-291: the request that primes the SPI controller
\* (the five bytes of the SpiAttach payload are its args)
\* the arm of enable_flash for Chip::Esp32c3, which the match of lines 283-291
\* does not have: the request of the ESP32
enable_flash_esp32c3 == Frame(SpiAttach, <<0, 0, 0, 0, 0>>, <<>>)

\* enable_flash_frame with a SpiAttach payload of four bytes
enable_flash_frame_short(c) ==
    IF c = "Esp8266"
    THEN Frame(FlashBegin, <<0, 0, FLASH_WRITE_SIZE, 0>>, <<>>)
    ELSE Frame(SpiAttach, <<0, 0, 0, 0>>, <<>>)

enable_flash_frame(c) ==
    CASE c = "Esp8266" -> Frame(FlashBegin, <<0, 0, FLASH_WRITE_SIZE, 0>>, <<>>)
      [] c = "Esp32" -> Frame(SpiAttach, <<0, 0, 0, 0, 0>>, <<>>)
      [] c = "Esp32c3" -> enable_flash_esp32c3

\* Flasher::enable_flash, called by connect and by load_elf_to_flash
enable_flash ==
    /\ pc = "enable_flash"
    /\ command(enable_flash_frame(chip),
               IF call = "connect" THEN "flash_detect" ELSE "flash_image")
    /\ UNCHANGED <<call, synced, flasher, chip, flash_size, timeout, baud, ret, loc, steps>>

\* the arguments flash_detect gives spi_command, line 155
SPI_COMMAND == 159
SPI_DATA_LEN == 0
SPI_READ_BITS == 24

\* spi_command, lines 304-310
spi_flags(data_len, read_bits) ==
    BIT31 + (IF data_len # 0 THEN 2 ^ 27 ELSE 0) + (IF read_bits > 0 THEN 2 ^ 28 ELSE 0)

\* spi_command, lines 325-331: the lengths packed into usr1
spi_usr1(data_len, read_bits) ==
    LET mosi_mask == IF data_len = 0 THEN 0 ELSE data_len * 8 - 1
        miso_mask == IF read_bits = 0 THEN 0 ELSE read_bits - 1
    IN  miso_mask * 2 ^ 8 + mosi_mask * 2 ^ 17

\* connect, line 127 returned; flash_detect, line 155; spi_command, line 301
spi_save_usr ==
    /\ pc = "flash_detect"
    /\ read_reg(usr(SPI_REGISTERS(chip)), "spi_save_usr2")
    /\ steps' = Append(steps, "enable_flash")
    /\ UNCHANGED <<call, synced, flasher, chip, flash_size, timeout, baud, ret, loc>>

\* spi_command, line 302
spi_save_usr2 ==
    /\ pc = "spi_save_usr2"
    /\ read_reg(usr2(SPI_REGISTERS(chip)), "spi_write_usr")
    /\ loc' = [loc EXCEPT !.old_spi_usr = ret]
    /\ UNCHANGED <<call, synced, flasher, chip, flash_size, timeout, baud, ret, steps>>

\* spi_command, line 312
spi_write_usr ==
    /\ pc = "spi_write_usr"
    /\ write_reg(usr(SPI_REGISTERS(chip)), spi_flags(SPI_DATA_LEN, SPI_READ_BITS),
                 "spi_write_usr2")
    /\ loc' = [loc EXCEPT !.old_spi_usr2 = ret]
    /\ UNCHANGED <<call, synced, flasher, chip, flash_size, timeout, baud, ret, steps>>

\* spi_command, line 313
spi_write_usr2 ==
    /\ pc = "spi_write_usr2"
    /\ write_reg(usr2(SPI_REGISTERS(chip)), 7 * 2 ^ 28 + SPI_COMMAND, "spi_write_length")
    /\ UNCHANGED <<call, synced, flasher, chip, flash_size, timeout, baud, ret, loc, steps>>

\* spi_command, lines 315-332, for empty data and read_bits > 0: the miso
\* length register where the chip has one, usr1 otherwise
spi_write_length ==
    /\ pc = "spi_write_length"
    /\ IF SPI_REGISTERS(chip).has_length
       THEN write_reg(miso_length(SPI_REGISTERS(chip)), SPI_READ_BITS - 1, "spi_write_w0")
       ELSE write_reg(usr1(SPI_REGISTERS(chip)), spi_usr1(SPI_DATA_LEN, SPI_READ_BITS),
                      "spi_write_w0")
    /\ UNCHANGED <<call, synced, flasher, chip, flash_size, timeout, baud, ret, loc, steps>>

\* spi_command, lines 334-335: data is empty
spi_write_w0 ==
    /\ pc = "spi_write_w0"
    /\ write_reg(w0(SPI_REGISTERS(chip)), 0, "spi_kick")
    /\ UNCHANGED <<call, synced, flasher, chip, flash_size, timeout, baud, ret, loc, steps>>

\* spi_command, lines 345-347
spi_kick ==
    /\ pc = "spi_kick"
    /\ write_reg(cmd(SPI_REGISTERS(chip)), 2 ^ 18, "spi_poll")
    /\ loc' = [loc EXCEPT !.i = 0]
    /\ UNCHANGED <<call, synced, flasher, chip, flash_size, timeout, baud, ret, steps>>

\* spi_command, lines 349-350: sleep 1 ms, read usr
spi_poll ==
    /\ pc = "spi_poll"
    /\ read_reg(usr(SPI_REGISTERS(chip)), "spi_poll_check")
    /\ UNCHANGED <<call, synced, flasher, chip, flash_size, timeout, baud, ret, loc, steps>>

\* spi_poll_check that gives up when i reaches 10
spi_poll_check_ge ==
    /\ pc = "spi_poll_check"
    /\ pending = 0
    /\ IF Bit(ret, 18) = 0
       THEN pc' = "spi_result" /\ UNCHANGED <<loc, result, pending>>
       ELSE /\ loc' = [loc EXCEPT !.i = @ + 1]
            /\ IF loc.i + 1 >= SPI_POLL_LIMIT
               THEN Return(Err("Timeout", 0))
               ELSE pc' = "spi_poll" /\ UNCHANGED <<result, pending>>
    /\ UNCHANGED <<call, synced, flasher, chip, flash_size, timeout, baud, ret, trace, steps,
                   outstanding, flushed, rx, mem, busy>>

\* spi_command, lines 350-356
spi_poll_check ==
    /\ pc = "spi_poll_check"
    /\ pending = 0
    /\ IF Bit(ret, 18) = 0
       THEN pc' = "spi_result" /\ UNCHANGED <<loc, result, pending>>
       ELSE /\ loc' = [loc EXCEPT !.i = @ + 1]
            /\ IF loc.i + 1 > SPI_POLL_LIMIT
               THEN Return(Err("Timeout", 0))
               ELSE pc' = "spi_poll" /\ UNCHANGED <<result, pending>>
    /\ UNCHANGED <<call, synced, flasher, chip, flash_size, timeout, baud, ret, trace, steps,
                   outstanding, flushed, rx, mem, busy>>

\* spi_command, line 359
spi_result ==
    /\ pc = "spi_result"
    /\ read_reg(w0(SPI_REGISTERS(chip)), "spi_restore_usr")
    /\ UNCHANGED <<call, synced, flasher, chip, flash_size, timeout, baud, ret, loc, steps>>

\* spi_restore_usr that writes back the value saved from usr2
spi_restore_usr_other ==
    /\ pc = "spi_restore_usr"
    /\ write_reg(usr(SPI_REGISTERS(chip)), loc.old_spi_usr2, "spi_restore_usr2")
    /\ loc' = [loc EXCEPT !.flash_id = ret]
    /\ UNCHANGED <<call, synced, flasher, chip, flash_size, timeout, baud, ret, steps>>

\* spi_command, line 360
spi_restore_usr ==
    /\ pc = "spi_restore_usr"
    /\ write_reg(usr(SPI_REGISTERS(chip)), loc.old_spi_usr, "spi_restore_usr2")
    /\ loc' = [loc EXCEPT !.flash_id = ret]
    /\ UNCHANGED <<call, synced, flasher, chip, flash_size, timeout, baud, ret, steps>>

\* spi_command, lines 361-363
spi_restore_usr2 ==
    /\ pc = "spi_restore_usr2"
    /\ write_reg(usr2(SPI_REGISTERS(chip)), loc.old_spi_usr2, "flash_detect_bind")
    /\ UNCHANGED <<call, synced, flasher, chip, flash_size, timeout, baud, ret, loc, steps>>

\* flash_detect_bind that decodes the size and does not store it
flash_detect_bind_unstored ==
    /\ pc = "flash_detect_bind"
    /\ pending = 0
    /\ IF FlashSize_from(size_id(loc.flash_id)) = "None"
       THEN /\ Return(Err("UnsupportedFlash", size_id(loc.flash_id)))
            /\ UNCHANGED steps
       ELSE /\ steps' = Append(steps, "flash_detect")
            /\ pc' = "connect_speed"
            /\ UNCHANGED <<result, pending>>
    /\ UNCHANGED <<call, synced, flasher, chip, flash_size, timeout, baud, ret, loc, trace,
                   outstanding, flushed, rx, mem, busy>>

\* flash_detect, lines 156-159
flash_detect_bind ==
    /\ pc = "flash_detect_bind"
    /\ pending = 0
    /\ IF FlashSize_from(size_id(loc.flash_id)) = "None"
       THEN /\ Return(Err("UnsupportedFlash", size_id(loc.flash_id)))
            /\ UNCHANGED <<flash_size, steps>>
       ELSE /\ flash_size' = FlashSize_from(size_id(loc.flash_id))
            /\ steps' = Append(steps, "flash_detect")
            /\ pc' = "connect_speed"
            /\ UNCHANGED <<result, pending>>
    /\ UNCHANGED <<call, synced, flasher, chip, timeout, baud, ret, loc, trace, outstanding, flushed,
                   rx, mem, busy>>

\* wants_change_baud without the match on the chip
wants_change_baud_any(c, speed) ==
    /\ speed # 0
    /\ speed > DEFAULT_BAUD

\* connect, lines 130-139: whether the requested speed (0: None) is applied
wants_change_baud(c, speed) ==
    /\ speed # 0
    /\ c # "Esp8266"
    /\ speed > DEFAULT_BAUD

\* connect, lines 130-142, and change_baud, lines 479-485
connect_speed ==
    /\ pc = "connect_speed"
    /\ pending = 0
    /\ \E speed \in Speeds :
        IF wants_change_baud(chip, speed)
        THEN /\ command(Frame(ChangeBaud, <<speed, 0>>, <<>>), "change_baud_set")
             /\ loc' = [loc EXCEPT !.speed = speed]
             /\ UNCHANGED flasher
        ELSE /\ Return(OkResult)
             /\ flasher' = TRUE
             /\ loc' = [loc EXCEPT !.speed = speed]
             /\ UNCHANGED <<trace, outstanding, flushed, rx, mem, busy>>
    /\ UNCHANGED <<call, synced, chip, flash_size, timeout, baud, ret, steps>>

\* change_baud, line 486: connection.set_baud(speed)?
change_baud_set ==
    /\ pc = "change_baud_set"
    /\ pending = 0
    /\ \E io \in BOOLEAN :
        IF io
        THEN Return(Err("IoError", 0)) /\ UNCHANGED <<baud, trace>>
        ELSE /\ baud' = loc.speed
             /\ trace' = Append(trace, Event("set_baud"))
             /\ pc' = "change_baud_flush"
             /\ UNCHANGED <<result, pending>>
    /\ UNCHANGED <<call, synced, flasher, chip, flash_size, timeout, ret, loc, steps,
                   outstanding, flushed, rx, mem, busy>>

\* change_baud, lines 487-489, and connect, line 142
change_baud_flush ==
    /\ pc = "change_baud_flush"
    /\ \E io \in BOOLEAN :
        IF io
        THEN Return(Err("IoError", 0)) /\ UNCHANGED <<rx, flushed, steps, flasher>>
        ELSE /\ rx' = <<>>
             /\ flushed' = TRUE
             /\ steps' = Append(steps, "change_baud")
             /\ Return(OkResult)
             /\ flasher' = TRUE
    /\ UNCHANGED <<call, synced, chip, flash_size, timeout, baud, ret, loc, trace,
                   outstanding, mem, busy>>

\* ------------------------------------------------------------ loading

\* a Flasher that connect has returned, before its first load
LoadInit ==
    /\ call = "connect"
    /\ pc = "done"
    /\ result = OkResult
    /\ flasher = TRUE
    /\ chip \in Chips
    /\ flash_size \in LoadFlashSizes
    /\ timeout = CONNECT_TIMEOUT
    /\ baud = DEFAULT_BAUD
    /\ pending = 0
    /\ ret = 0
    /\ loc = LocInit
    /\ trace = <<>>
    /\ steps = <<>>
    /\ outstanding = 0
    /\ flushed = FALSE
    /\ synced = TRUE
    /\ rx = <<>>
    /\ \E v \in DevRegVals : mem = [a \in SavedRegs |-> IF a \in UsrRegs THEN v ELSE v + 1]
    /\ busy = FALSE

\* a public method may be called on the Flasher
Ready == pc = "done" /\ flasher /\ call = "connect" /\ result = OkResult

\* segment.data.chunks(n).count()
chunks(len, n) == (len + n - 1) \div n
\* the length of chunk i (from 0)
chunk_len(len, n, i) == IF len - i * n < n THEN len - i * n ELSE n

\* Flasher::begin_command
begin_command(command_op, size, blocks, block_size, offset, next) ==
    command(Frame(command_op, <<size, blocks, block_size, offset>>, <<>>), next)

\* Flasher::block_command: BlockParams, then what follows it in the payload
\* (data.len(), padding, padding_byte) and the declared u16 length
\* block_command declaring the length of the parameters and the data only
block_command_unpadded(command_op, data_len, padding, padding_byte, sequence, next) ==
    command(Frame(command_op, <<data_len + padding, sequence, 0, 0>>,
                  <<data_len, padding, padding_byte, (16 + data_len) % 65536>>),
            next)

block_command(command_op, data_len, padding, padding_byte, sequence, next) ==
    command(Frame(command_op, <<data_len + padding, sequence, 0, 0>>,
                  <<data_len, padding, padding_byte, (16 + data_len + padding) % 65536>>),
            next)

\* get_erase_size halving the sector count downwards
get_erase_size_floor(offset, size) ==
    LET sector_count == (size + FLASH_SECTOR_SIZE - 1) \div FLASH_SECTOR_SIZE
        start_sector == offset \div FLASH_SECTOR_SIZE
        rest == FLASH_SECTORS_PER_BLOCK - (start_sector % FLASH_SECTORS_PER_BLOCK)
        head_sectors == IF rest < sector_count THEN rest ELSE sector_count
    IN  IF sector_count < 2 * head_sectors
        THEN (sector_count \div 2) * FLASH_SECTOR_SIZE
        ELSE (sector_count - head_sectors) * FLASH_SECTOR_SIZE

\* fn get_erase_size
get_erase_size(offset, size) ==
    LET sector_count == (size + FLASH_SECTOR_SIZE - 1) \div FLASH_SECTOR_SIZE
        start_sector == offset \div FLASH_SECTOR_SIZE
        rest == FLASH_SECTORS_PER_BLOCK - (start_sector % FLASH_SECTORS_PER_BLOCK)
        head_sectors == IF rest < sector_count THEN rest ELSE sector_count
    IN  IF sector_count < 2 * head_sectors
        THEN ((sector_count + 1) \div 2) * FLASH_SECTOR_SIZE
        ELSE (sector_count - head_sectors) * FLASH_SECTOR_SIZE

\* erase_size without the ESP8266 arm
erase_size_len(c, addr, len) == len

\* load_elf_to_flash, lines 440-443
erase_size(c, addr, len) ==
    IF c = "Esp8266" THEN get_erase_size(addr, len) ELSE len

\* load_elf_to_ram that goes on to load an image with rom segments
load_elf_to_ram_any ==
    /\ Ready
    /\ \E valid \in BOOLEAN, has_rom \in BOOLEAN, ram \in RamImages, entry \in Entries :
        IF ~valid
        THEN Return(Err("InvalidElf", 0)) /\ loc' = [LocInit EXCEPT !.valid = FALSE]
        ELSE /\ loc' = [LocInit EXCEPT !.segs = ram, !.entry = entry, !.has_rom = has_rom]
             /\ pc' = "ram_segment"
             /\ result' = NoResult
             /\ UNCHANGED pending
    /\ call' = "load_elf_to_ram"
    /\ trace' = <<>>
    /\ steps' = <<>>
    /\ outstanding' = 0
    /\ UNCHANGED <<flasher, chip, flash_size, timeout, baud, ret, flushed, synced, rx,
                   mem, busy>>

\* load_elf_to_ram, lines 397-401: parse the image, refuse one with rom segments
load_elf_to_ram ==
    /\ Ready
    /\ \E valid \in BOOLEAN, has_rom \in BOOLEAN, ram \in RamImages, entry \in Entries :
        IF ~valid
        THEN Return(Err("InvalidElf", 0)) /\ loc' = [LocInit EXCEPT !.valid = FALSE]
        ELSE IF has_rom
        THEN Return(Err("ElfNotRamLoadable", 0)) /\ loc' = [LocInit EXCEPT !.has_rom = TRUE]
        ELSE /\ loc' = [LocInit EXCEPT !.segs = ram, !.entry = entry]
             /\ pc' = "ram_segment"
             /\ result' = NoResult
             /\ UNCHANGED pending
    /\ call' = "load_elf_to_ram"
    /\ trace' = <<>>
    /\ steps' = <<>>
    /\ outstanding' = 0
    /\ UNCHANGED <<flasher, chip, flash_size, timeout, baud, ret, flushed, synced, rx,
                   mem, busy>>

\* load_elf_to_ram, lines 403-413: the next segment's MemBegin
ram_begin ==
    /\ pc = "ram_segment"
    /\ loc.si <= Len(loc.segs)
    /\ LET segment == loc.segs[loc.si]
           padding == 4 - (segment.len % 4)
           block_count ==
               (segment.len + padding + MAX_RAM_BLOCK_SIZE - 1) \div MAX_RAM_BLOCK_SIZE
       IN  /\ begin_command(MemBegin, segment.len, block_count, MAX_RAM_BLOCK_SIZE,
                            segment.addr, "ram_block")
           /\ loc' = [loc EXCEPT !.padding = padding, !.block_count = block_count,
                                 !.bi = 0]
    /\ UNCHANGED <<call, synced, flasher, chip, flash_size, timeout, baud, ret, steps>>

\* load_elf_to_ram, lines 415-418: the next MemData block of the segment
ram_block ==
    /\ pc = "ram_block"
    /\ loc.bi < chunks(loc.segs[loc.si].len, MAX_RAM_BLOCK_SIZE)
    /\ LET block == chunk_len(loc.segs[loc.si].len, MAX_RAM_BLOCK_SIZE, loc.bi)
           block_padding == IF loc.bi = loc.block_count - 1 THEN loc.padding ELSE 0
       IN  block_command(MemData, block, block_padding, 0, loc.bi, "ram_block")
    /\ loc' = [loc EXCEPT !.bi = @ + 1]
    /\ UNCHANGED <<call, synced, flasher, chip, flash_size, timeout, baud, ret, steps>>

\* load_elf_to_ram, line 419: the segment's blocks are sent
ram_segment_end ==
    /\ pc = "ram_block"
    /\ pending = 0
    /\ loc.bi = chunks(loc.segs[loc.si].len, MAX_RAM_BLOCK_SIZE)
    /\ loc' = [loc EXCEPT !.si = @ + 1]
    /\ pc' = "ram_segment"
    /\ UNCHANGED <<call, synced, result, flasher, chip, flash_size, timeout, baud,
                   pending, ret, trace, steps, outstanding, flushed, rx, mem, busy>>

\* mem_finish that is also run after a block of the load has failed
mem_finish_always ==
    /\ \/ pc = "ram_segment" /\ loc.si > Len(loc.segs)
       \/ /\ call = "load_elf_to_ram"
          /\ pc = "done"
          /\ result.kind = "RomError"
          /\ trace[Len(trace)].op # MemEnd
    /\ write_command(Frame(MemEnd, <<IF loc.entry = 0 THEN 1 ELSE 0, loc.entry>>, <<>>),
                     "done", OkResult)
    /\ UNCHANGED <<call, synced, flasher, chip, flash_size, timeout, baud, ret, loc,
                   steps>>

\* load_elf_to_ram, lines 421-423, and Flasher::mem_finish
mem_finish ==
    /\ pc = "ram_segment"
    /\ loc.si > Len(loc.segs)
    /\ write_command(Frame(MemEnd, <<IF loc.entry = 0 THEN 1 ELSE 0, loc.entry>>, <<>>),
                     "done", OkResult)
    /\ UNCHANGED <<call, synced, flasher, chip, flash_size, timeout, baud, ret, loc,
                   steps>>

\* load_elf_to_flash, line 428: the call begins with enable_flash
load_elf_to_flash ==
    /\ Ready
    /\ \E valid \in BOOLEAN, flash \in FlashImages :
        loc' = [LocInit EXCEPT !.valid = valid, !.segs = IF valid THEN flash ELSE <<>>]
    /\ call' = "load_elf_to_flash"
    /\ pc' = "enable_flash"
    /\ result' = NoResult
    /\ trace' = <<>>
    /\ steps' = <<>>
    /\ outstanding' = 0
    /\ UNCHANGED <<flasher, chip, flash_size, timeout, baud, pending, ret, flushed,
                   synced, rx, mem, busy>>

\* load_elf_to_flash, lines 429-430: parse the image, hand it the flash size
flash_image ==
    /\ pc = "flash_image"
    /\ pending = 0
    /\ IF ~loc.valid
       THEN Return(Err("InvalidElf", 0)) /\ UNCHANGED <<loc, steps>>
       ELSE /\ loc' = [loc EXCEPT !.image_flash_size = flash_size]
            /\ steps' = Append(steps, "enable_flash")
            /\ pc' = "flash_segment"
            /\ UNCHANGED <<result, pending>>
    /\ UNCHANGED <<call, synced, flasher, chip, flash_size, timeout, baud, ret, trace,
                   outstanding, flushed, rx, mem, busy>>

\* load_elf_to_flash, lines 433-451: the next segment's FlashBegin
flash_begin ==
    /\ pc = "flash_segment"
    /\ loc.si <= Len(loc.segs)
    /\ LET segment == loc.segs[loc.si]
           block_count == (segment.len + FLASH_WRITE_SIZE - 1) \div FLASH_WRITE_SIZE
       IN  IF ~segment.ok
           THEN /\ pending = 0
                /\ Return(Err("SegmentError", 0))
                /\ UNCHANGED <<loc, trace, outstanding, flushed, rx, mem, busy>>
           ELSE /\ begin_command(FlashBegin, erase_size(chip, segment.addr, segment.len),
                                 block_count, FLASH_WRITE_SIZE, segment.addr, "flash_block")
                /\ loc' = [loc EXCEPT !.block_count = block_count, !.bi = 0]
    /\ UNCHANGED <<call, synced, flasher, chip, flash_size, timeout, baud, ret, steps>>

\* flash_block that numbers the blocks from 1
flash_block_from1 ==
    /\ pc = "flash_block"
    /\ loc.bi < chunks(loc.segs[loc.si].len, FLASH_WRITE_SIZE)
    /\ LET block == chunk_len(loc.segs[loc.si].len, FLASH_WRITE_SIZE, loc.bi)
           block_padding == FLASH_WRITE_SIZE - block
       IN  block_command(FlashData, block, block_padding, 255, loc.bi + 1, "flash_block")
    /\ loc' = [loc EXCEPT !.bi = @ + 1]
    /\ UNCHANGED <<call, synced, flasher, chip, flash_size, timeout, baud, ret, steps>>

\* load_elf_to_flash, lines 453-458: the next FlashData block of the segment
flash_block ==
    /\ pc = "flash_block"
    /\ loc.bi < chunks(loc.segs[loc.si].len, FLASH_WRITE_SIZE)
    /\ LET block == chunk_len(loc.segs[loc.si].len, FLASH_WRITE_SIZE, loc.bi)
           block_padding == FLASH_WRITE_SIZE - block
       IN  block_command(FlashData, block, block_padding, 255, loc.bi, "flash_block")
    /\ loc' = [loc EXCEPT !.bi = @ + 1]
    /\ UNCHANGED <<call, synced, flasher, chip, flash_size, timeout, baud, ret, steps>>

\* load_elf_to_flash, lines 459-460: the segment's blocks are sent
flash_segment_end ==
    /\ pc = "flash_block"
    /\ pending = 0
    /\ loc.bi = chunks(loc.segs[loc.si].len, FLASH_WRITE_SIZE)
    /\ loc' = [loc EXCEPT !.si = @ + 1]
    /\ pc' = "flash_segment"
    /\ UNCHANGED <<call, synced, result, flasher, chip, flash_size, timeout, baud,
                   pending, ret, trace, steps, outstanding, flushed, rx, mem, busy>>

\* flash_finish(true): the payload byte is 0
flash_finish_reboot ==
    /\ pc = "flash_segment"
    /\ loc.si > Len(loc.segs)
    /\ write_command(Frame(FlashEnd, <<0>>, <<>>), "reset", result)
    /\ UNCHANGED <<call, synced, flasher, chip, flash_size, timeout, baud, ret, loc,
                   steps>>

\* load_elf_to_flash, line 462, and Flasher::flash_finish(false): the payload
\* byte is !reboot
flash_finish ==
    /\ pc = "flash_segment"
    /\ loc.si > Len(loc.segs)
    /\ write_command(Frame(FlashEnd, <<1>>, <<>>), "reset", result)
    /\ UNCHANGED <<call, synced, flasher, chip, flash_size, timeout, baud, ret, loc,
                   steps>>

\* load_elf_to_flash, lines 466-475: connection.reset()
reset ==
    /\ pc = "reset"
    /\ \E io \in BOOLEAN :
        IF io
        THEN Return(Err("IoError", 0)) /\ UNCHANGED trace
        ELSE Return(OkResult) /\ trace' = Append(trace, Event("reset"))
    /\ UNCHANGED <<call, synced, flasher, chip, flash_size, timeout, baud, ret, loc,
                   steps, outstanding, flushed, rx, mem, busy>>

LoadNext ==
    \/ command_response
    \/ load_elf_to_ram
    \/ ram_begin
    \/ ram_block
    \/ ram_segment_end
    \/ mem_finish
    \/ load_elf_to_flash
    \/ enable_flash
    \/ flash_image
    \/ flash_begin
    \/ flash_block
    \/ flash_segment_end
    \/ flash_finish
    \/ reset

LoadSpec == LoadInit /\ [][LoadNext]_vars

Next ==
    \/ command_response
    \/ reset_to_flash
    \/ start_connection_flush
    \/ start_connection_failed
    \/ sync_write
    \/ sync_poll
    \/ sync_poll_end
    \/ sync_drain
    \/ sync_done
    \/ set_timeout
    \/ chip_detect_reg1
    \/ chip_detect_reg2
    \/ chip_detect_bind
    \/ enable_flash
    \/ spi_save_usr
    \/ spi_save_usr2
    \/ spi_write_usr
    \/ spi_write_usr2
    \/ spi_write_length
    \/ spi_write_w0
    \/ spi_kick
    \/ spi_poll
    \/ spi_poll_check
    \/ spi_result
    \/ spi_restore_usr
    \/ spi_restore_usr2
    \/ flash_detect_bind
    \/ connect_speed
    \/ change_baud_set
    \/ change_baud_flush

Spec == Init /\ [][Next]_vars

\* ------------------------------------------------------------ properties

ConnectSteps == <<"reset_to_flash", "sync", "chip_detect", "enable_flash", "flash_detect">>
IsPrefix(a, b) == Len(a) <= Len(b) /\ SubSeq(b, 1, Len(a)) = a

\* the detect magic of a chip
MagicOf(c) ==
    CASE c = "Esp8266" -> MAGIC_ESP8266
      [] c = "Esp32" -> MAGIC_ESP32
      [] c = "Esp32c3" -> MAGIC_ESP32C3

\* bits 16..23 of a word
Bits16to23(w) == ((w % 16777216) - (w % 65536)) \div 65536

\* the Sync requests written in this call
SyncCount == Cardinality({i \in DOMAIN trace : trace[i].op = Sync})

\* the frames that start the session once start_connection has written n Sync
\* requests
ConnectPrefix(n, c) ==
    <<Event("reset_to_flash")>> \o [k \in 1..n |-> Frame(Sync, SyncPayload, <<>>)] \o
    <<Event("set_timeout"),
      Frame(ReadReg, <<UART_DATE_REG_ADDR>>, <<>>),
      Frame(ReadReg, <<UART_DATE_REG2_ADDR>>, <<>>),
      enable_flash_frame(c),
      Frame(ReadReg, <<usr(SPI_REGISTERS(c))>>, <<>>)>>

ConnectReturned == call = "connect" /\ pc = "done"

\* C1: connect returns a Flasher only after reset_to_flash, sync, chip_detect,
\* enable_flash and flash_detect have succeeded in this order, its chip is the
\* variant whose magic a UART date register held and its flash_size the size
\* whose ID is bits 16..23 of the flash ID read; a call that ends in an error
\* returns no Flasher, and the error is that of the step that failed.
C1_ConnectContract ==
    ConnectReturned =>
        /\ flasher <=> result = OkResult
        /\ result = OkResult =>
            /\ IsPrefix(ConnectSteps, steps)
            /\ IsPrefix(ConnectPrefix(SyncCount, chip), trace)
            /\ MagicOf(chip) \in {loc.reg1, loc.reg2}
            /\ FlashSizeId(flash_size) = Bits16to23(loc.flash_id)
        /\ result.kind = "ConnectionFailed" => steps = SubSeq(ConnectSteps, 1, 1)
        /\ result.kind = "UnrecognizedChip" => steps = SubSeq(ConnectSteps, 1, 2)
        /\ result.kind \in {"Timeout", "UnsupportedFlash"} =>
               steps = SubSeq(ConnectSteps, 1, 4)
        /\ result # OkResult => Len(steps) <= 5

\* C1 witness: connect has returned a Flasher bound to other than the placeholders
C1_Witness ==
    /\ ConnectReturned
    /\ flasher
    /\ chip = "Esp32c3"
    /\ flash_size = "Flash2MB"
    /\ SyncCount = 2

\* start_connection writes at most 10 Sync requests and flushes the input
\* before each: the bounded part of C2
C2_SyncBounded ==
    /\ SyncCount <= SYNC_ATTEMPTS
    /\ pc = "sync" => flushed
    /\ (pc = "sync_poll" /\ loc.polls = 0 /\ trace[Len(trace)].op = Sync) => ~flushed

\* C2: start_connection writes at most 10 Sync requests, each on a flushed
\* input, fails with ConnectionFailed when no Sync acknowledgement of status 0
\* is ever read, and returns Ok only when one has been read.
C2_SyncNeedsAck ==
    /\ C2_SyncBounded
    /\ (call = "connect" /\ Len(steps) >= 2) => synced

\* C2 witness: start_connection has returned Ok after one Sync request that no
\* acknowledgement answered
C2_Witness ==
    /\ call = "connect"
    /\ Len(steps) >= 2
    /\ SyncCount = 1
    /\ ~synced

\* C9: chip_detect reads 0x60000078 and then 0x3F400074 and binds the variant
\* whose magic is one of the two values: (magic_esp32, 0) binds Esp32,
\* (0, magic_esp32c3) binds Esp32c3; a pair without a known magic fails with
\* UnrecognizedChip and leaves the chip as it was.
C9_ChipDetect ==
    (call = "connect" /\ (Len(steps) >= 3 \/ result.kind = "UnrecognizedChip")) =>
        /\ \E i \in DOMAIN trace :
            /\ i + 1 \in DOMAIN trace
            /\ trace[i] = Frame(ReadReg, <<UART_DATE_REG_ADDR>>, <<>>)
            /\ trace[i + 1] = Frame(ReadReg, <<UART_DATE_REG2_ADDR>>, <<>>)
            /\ \A j \in 1..(i - 1) : trace[j].op # ReadReg
        /\ Len(steps) >= 3 =>
            /\ MagicOf(chip) \in {loc.reg1, loc.reg2}
            /\ (loc.reg1 = MAGIC_ESP32 /\ loc.reg2 = 0) => chip = "Esp32"
            /\ (loc.reg1 = 0 /\ loc.reg2 = MAGIC_ESP32C3) => chip = "Esp32c3"
        /\ result.kind = "UnrecognizedChip" =>
            /\ {loc.reg1, loc.reg2} \cap {MAGIC_ESP8266, MAGIC_ESP32, MAGIC_ESP32C3} = {}
            /\ chip = "Esp8266"
            /\ ~flasher
        /\ ({loc.reg1, loc.reg2} \cap {MAGIC_ESP8266, MAGIC_ESP32, MAGIC_ESP32C3} = {}) =>
               result.kind = "UnrecognizedChip"

\* C9 witness: (0, magic_esp32c3) has bound Esp32c3
C9_Witness ==
    /\ call = "connect"
    /\ Len(steps) >= 3
    /\ loc.reg1 = 0
    /\ loc.reg2 = MAGIC_ESP32C3
    /\ chip = "Esp32c3"

\* the registers spi_command(0x9F, [], 24) programs before it kicks the
\* controller: the 8-bit command 0x9F in usr2 and a read of 24 bits
SpiSetup(c) ==
    /\ \E i \in DOMAIN trace :
        trace[i] = Frame(WriteReg, <<usr2(SPI_REGISTERS(c)), 1879048351, MASK_ALL, 0>>, <<>>)
    /\ \E i \in DOMAIN trace :
        \/ trace[i] = Frame(WriteReg, <<miso_length(SPI_REGISTERS(c)), 23, MASK_ALL, 0>>, <<>>)
        \/ /\ c = "Esp8266"
           /\ trace[i] = Frame(WriteReg, <<usr1(SPI_REGISTERS(c)), 5888, MASK_ALL, 0>>, <<>>)

\* C10: flash_detect runs spi_command(0x9F, [], 24) and sets flash_size to the
\* FlashSize whose ID is bits 16..23 of the word returned, for each of
\* 0x12..0x18 (0x00154000 gives Flash2MB); for any other byte b it fails with
\* UnsupportedFlash(b) and leaves flash_size as it was.
C10_FlashDetect ==
    (call = "connect" /\ (Len(steps) >= 5 \/ result.kind = "UnsupportedFlash")) =>
        /\ SpiSetup(chip)
        /\ Len(steps) >= 5 =>
            /\ Bits16to23(loc.flash_id) \in 18..24
            /\ FlashSizeId(flash_size) = Bits16to23(loc.flash_id)
            /\ loc.flash_id = 1392640 => flash_size = "Flash2MB"
        /\ result.kind = "UnsupportedFlash" =>
            /\ Bits16to23(loc.flash_id) \notin 18..24
            /\ result.code = Bits16to23(loc.flash_id)
            /\ flash_size = "Flash4MB"
            /\ ~flasher

\* C10 witness: the word 0x00154000 has set Flash2MB
C10_Witness ==
    /\ call = "connect"
    /\ Len(steps) >= 5
    /\ loc.flash_id = 1392640
    /\ flash_size = "Flash2MB"

\* flash_detect has failed on an unknown size byte
C10_WitnessUnsupported ==
    /\ call = "connect"
    /\ result = Err("UnsupportedFlash", 25)

\* ------------------------------------------------------------ load properties

CeilDiv(a, b) == IF a % b = 0 THEN a \div b ELSE (a \div b) + 1

\* the place in trace of the last request of opcode op
LastIndexOf(op) ==
    CHOOSE i \in DOMAIN trace :
        trace[i].op = op /\ \A j \in (i + 1)..Len(trace) : trace[j].op # op

\* the frames written after the last request of opcode op
FramesAfter(op) == SubSeq(trace, LastIndexOf(op) + 1, Len(trace))

RECURSIVE SumSizes(_)
\* the sum of the BlockParams sizes of a sequence of block frames
SumSizes(fs) == IF fs = <<>> THEN 0 ELSE fs[1].args[1] + SumSizes(Tail(fs))

\* the operation goes on or has returned Ok
NotFailed == result.kind \in {"Ok", "running"}

\* every request written by command has its response consumed before the
\* engine goes on: the only requests left unanswered in an operation that has
\* not failed are MemEnd and FlashEnd
C3_ExceptFinish ==
    (outstanding > 0 /\ pending = 0 /\ NotFailed) =>
        /\ outstanding = 1
        /\ \E i \in DOMAIN trace :
            /\ trace[i].op \in {MemEnd, FlashEnd}
            /\ \A j \in (i + 1)..Len(trace) : trace[j].ev # "write"

\* C3: for every request other than Sync exactly one response is consumed, and
\* the engine neither emits the next request nor returns before it has been:
\* an operation that has not failed has at most the request it is reading the
\* response of outstanding.
C3_OneResponsePerRequest ==
    /\ outstanding <= 1
    /\ (outstanding = 1 /\ NotFailed) => pending # 0

\* C3 witness: load_elf_to_ram has returned Ok with the response to MemEnd unread
C3_Witness ==
    /\ call = "load_elf_to_ram"
    /\ pc = "done"
    /\ result = OkResult
    /\ outstanding = 1
    /\ trace[Len(trace)].op = MemEnd

\* all the blocks of the ram segment in hand have been sent
RamSegmentSent ==
    /\ call = "load_elf_to_ram"
    /\ pc = "ram_block"
    /\ pending = 0
    /\ loc.bi = chunks(loc.segs[loc.si].len, MAX_RAM_BLOCK_SIZE)

\* the MemData blocks of a ram segment carry at most 0x1800 data bytes each,
\* pad with 0x00 and come in sequence: the part of C4 that holds for any length
C4_RamBlocksBounded ==
    (call = "load_elf_to_ram" /\ pc = "ram_block") =>
        LET fs == FramesAfter(MemBegin)
        IN  \A k \in DOMAIN fs :
                /\ fs[k].op = MemData
                /\ fs[k].args[2] = k - 1
                /\ fs[k].data[1] <= MAX_RAM_BLOCK_SIZE
                /\ fs[k].data[3] = 0
                /\ fs[k].args[1] = fs[k].data[1] + fs[k].data[2]

\* C4: the last MemData block emitted for a ram segment carries the padding
\* 4 - (len mod 4), every other block carries none, and the BlockParams sizes
\* of the segment's blocks sum to len + pad, for a segment of any length.
C4_RamPadding ==
    RamSegmentSent =>
        LET fs == FramesAfter(MemBegin)
            len == loc.segs[loc.si].len
            pad == 4 - (len % 4)
        IN  /\ \A k \in DOMAIN fs :
                fs[k].data[2] = (IF k = Len(fs) THEN pad ELSE 0)
            /\ SumSizes(fs) = len + pad

\* C4 witness: a segment of 0x1800 bytes has been sent in one block without
\* padding, after a MemBegin that announced two blocks
C4_Witness ==
    /\ RamSegmentSent
    /\ loc.segs[loc.si].len = 6144
    /\ trace[LastIndexOf(MemBegin)].args[2] = 2
    /\ Len(FramesAfter(MemBegin)) = 1
    /\ SumSizes(FramesAfter(MemBegin)) = 6144

\* a ram segment whose padding has been sent
C4_PaddedSegment ==
    /\ RamSegmentSent
    /\ loc.segs[loc.si].len = 6146
    /\ SumSizes(FramesAfter(MemBegin)) = 6148

\* C5: exactly ceil(len / 0x400) FlashData commands follow a flash segment's
\* FlashBegin, numbered 0, 1, ... in increasing order; each has
\* BlockParams.size 0x400, only the last carries padding, and the padding byte
\* is 0xFF.
C5_FlashBlocks ==
    (call = "load_elf_to_flash" /\ pc = "flash_block") =>
        LET fs == FramesAfter(FlashBegin)
            len == loc.segs[loc.si].len
            n == CeilDiv(len, 1024)
        IN  /\ trace[LastIndexOf(FlashBegin)].args[2] = n
            /\ Len(fs) <= n
            /\ (pending = 0 /\ loc.bi = chunks(len, FLASH_WRITE_SIZE)) => Len(fs) = n
            /\ (Len(fs) < n /\ pending = 0 /\ NotFailed) => ENABLED flash_block
            /\ \A k \in DOMAIN fs :
                /\ fs[k].op = FlashData
                /\ fs[k].args[2] = k - 1
                /\ fs[k].args[1] = 1024
                /\ fs[k].data[1] + fs[k].data[2] = 1024
                /\ fs[k].data[2] > 0 => k = n
                /\ fs[k].data[3] = 255
                /\ k = n => fs[k].data[1] = len - 1024 * (n - 1)

\* C5 witness: the three blocks of a segment of 0x801 bytes have been sent, the
\* last one padded
C5_Witness ==
    /\ call = "load_elf_to_flash"
    /\ pc = "flash_block"
    /\ pending = 0
    /\ loc.segs[loc.si].len = 2049
    /\ Len(FramesAfter(FlashBegin)) = 3
    /\ FramesAfter(FlashBegin)[3].data[2] = 1023

\* load_elf_to_flash on an ESP8266 has written the FlashBegin of a segment of
\* 0x801 bytes at 0x10000
Esp8266Segment801 ==
    /\ call = "load_elf_to_flash"
    /\ pc = "flash_block"
    /\ chip = "Esp8266"
    /\ loc.segs[loc.si].addr = 65536
    /\ loc.segs[loc.si].len = 2049

\* C6 as stated: on an ESP8266 the FlashBegin of a segment of 0x801 bytes at
\* 0x10000 carries erase size 0x2000.
C6_EraseSize2000 ==
    Esp8266Segment801 =>
        trace[LastIndexOf(FlashBegin)] = Frame(FlashBegin, <<8192, 3, 1024, 65536>>, <<>>)

\* C6: on an ESP8266 the FlashBegin of a segment of 0x801 bytes at 0x10000
\* carries erase size 0x1000, the value of get_erase_size for one sector in the
\* head of a block.
C6_EraseSize1000 ==
    Esp8266Segment801 =>
        trace[LastIndexOf(FlashBegin)] = Frame(FlashBegin, <<4096, 3, 1024, 65536>>, <<>>)

\* C6 witness: that FlashBegin has been written and acknowledged
C6_Witness == Esp8266Segment801 /\ pending = 0 /\ loc.bi = 0

\* C7: load_elf_to_ram on an image with a rom segment fails with
\* ElfNotRamLoadable and does no transport I/O: no frame is written and no
\* response is read.
C7_RomImageRefused ==
    (call = "load_elf_to_ram" /\ loc.has_rom) =>
        /\ result = Err("ElfNotRamLoadable", 0)
        /\ pc = "done"
        /\ trace = <<>>
        /\ pending = 0
        /\ outstanding = 0

\* C7 witness: an image with a rom segment has been refused
C7_Witness ==
    /\ call = "load_elf_to_ram"
    /\ loc.has_rom
    /\ result.kind = "ElfNotRamLoadable"

RECURSIVE SegmentFrames(_, _)
\* what load_elf_to_flash is to write for the segments from place i on: each
\* segment's FlashBegin, then its FlashData blocks
SegmentFrames(segs, i) ==
    IF i > Len(segs) THEN <<>>
    ELSE <<[op |-> FlashBegin, at |-> segs[i].addr]>> \o
         [k \in 1..CeilDiv(segs[i].len, 1024) |-> [op |-> FlashData, at |-> k - 1]] \o
         SegmentFrames(segs, i + 1)

\* the opcode of a request with the offset of a FlashBegin or the sequence
\* number of a FlashData
Outline(fs) ==
    [k \in DOMAIN fs |->
        [op |-> fs[k].op, at |-> IF fs[k].op = FlashBegin THEN fs[k].args[4] ELSE fs[k].args[2]]]

\* C8: a successful load_elf_to_flash writes the enable_flash command, then
\* for each segment in order its FlashBegin and all its FlashData blocks, then
\* one FlashEnd of payload 0x01, and resets the control lines only after that;
\* nothing is written after FlashEnd.
C8_FlashOrder ==
    /\ (call = "load_elf_to_flash" /\ pc = "done" /\ result = OkResult) =>
        /\ Len(trace) >= 3
        /\ trace[1] = enable_flash_frame(chip)
        /\ Outline(SubSeq(trace, 2, Len(trace) - 2)) = SegmentFrames(loc.segs, 1)
        /\ trace[Len(trace) - 1] = Frame(FlashEnd, <<1>>, <<>>)
        /\ trace[Len(trace)] = Event("reset")
    /\ call = "load_elf_to_flash" =>
        \A i \in DOMAIN trace :
            /\ trace[i].op = FlashEnd =>
                \A j \in (i + 1)..Len(trace) : j = Len(trace) /\ trace[j] = Event("reset")
            /\ trace[i] = Event("reset") => (i > 1 /\ trace[i - 1].op = FlashEnd)

\* C8 witness: two segments have been flashed and the device reset
C8_Witness ==
    /\ call = "load_elf_to_flash"
    /\ pc = "done"
    /\ result = OkResult
    /\ Len(loc.segs) = 2
    /\ loc.segs[1].len = 2049
    /\ loc.segs[2].len = 1025

\* ------------------------------------------------------------ baud rate

\* C11: on a detected ESP8266 connect never writes a ChangeBaud request and
\* leaves the port's baud rate alone, whatever speed is requested, and it
\* returns Ok once flash_detect has succeeded.
C11_Esp8266KeepsBaud ==
    (call = "connect" /\ Len(steps) >= 3 /\ chip = "Esp8266") =>
        /\ \A i \in DOMAIN trace :
               trace[i].op # ChangeBaud /\ trace[i] # Event("set_baud")
        /\ baud = DEFAULT_BAUD
        /\ (pc = "done" /\ Len(steps) >= 5) => (result = OkResult /\ flasher)
        /\ pc \notin {"change_baud_set", "change_baud_flush"}

\* C11 witness: connect on an ESP8266 has returned Ok with 921600 requested
C11_Witness ==
    /\ ConnectReturned
    /\ chip = "Esp8266"
    /\ Len(steps) >= 5
    /\ loc.speed = 921600
    /\ result = OkResult
    /\ baud = DEFAULT_BAUD

\* a higher speed requested of another chip is applied
C11_OtherChipChanges ==
    /\ ConnectReturned
    /\ chip = "Esp32"
    /\ result = OkResult
    /\ baud = 921600

\* ------------------------------------------------------------ block_command, byte by byte

CHECKSUM_INIT == 239

\* u8 ^ u8
Xor(a, b) ==
    LET x(k) == ((Bit(a, k) + Bit(b, k)) % 2) * 2 ^ k
    IN  x(0) + x(1) + x(2) + x(3) + x(4) + x(5) + x(6) + x(7)

RECURSIVE checksum_sum(_, _)
\* checksum that adds the bytes instead
checksum_sum(data, seed) ==
    IF data = <<>> THEN seed ELSE checksum_sum(Tail(data), (seed + Head(data)) % 256)

RECURSIVE checksum(_, _)
\* pub fn checksum: the loop `checksum ^= *byte` over data
checksum(data, seed) ==
    IF data = <<>> THEN seed ELSE checksum(Tail(data), Xor(seed, Head(data)))

\* the bytes of a block and of its padding
Bytes == {1, 85, 239, 255}
PadBytes == {0, 255}
\* how many data bytes and how many padding bytes a block is checked with
MaxData == 2
MaxPad == 4
BlockDatas == SeqsUpTo(Bytes, MaxData)
BlockOps == {MemData, FlashData}

\* a call of block_command(command, data, padding, padding_byte, 0) on a
\* connected Flasher
BlockInit ==
    /\ call = "block_command"
    /\ pc = "block_check"
    /\ result = NoResult
    /\ flasher = TRUE
    /\ chip = "Esp32"
    /\ flash_size = "Flash4MB"
    /\ timeout = CONNECT_TIMEOUT
    /\ baud = DEFAULT_BAUD
    /\ pending = 0
    /\ ret = 0
    /\ \E op \in BlockOps, data \in BlockDatas, padding \in 0..MaxPad, b \in PadBytes :
        loc = [LocInit EXCEPT !.command_op = op, !.data = data, !.padding = padding,
                              !.padding_byte = b]
    /\ trace = <<>>
    /\ steps = <<>>
    /\ outstanding = 0
    /\ flushed = FALSE
    /\ synced = TRUE
    /\ rx = <<>>
    /\ \E v \in DevRegVals : mem = [a \in SavedRegs |-> IF a \in UsrRegs THEN v ELSE v + 1]
    /\ busy = FALSE

\* block_command, line 244: the checksum of the data
block_check ==
    /\ pc = "block_check"
    /\ loc' = [loc EXCEPT !.check = checksum(loc.data, CHECKSUM_INIT), !.i = 0]
    /\ pc' = "block_pad"
    /\ UNCHANGED <<call, result, flasher, chip, flash_size, timeout, baud, pending, ret,
                   trace, steps, outstanding, flushed, synced, rx, mem, busy>>

\* block_command, lines 246-248: one padding byte more in the checksum
block_pad ==
    /\ pc = "block_pad"
    /\ loc.i < loc.padding
    /\ loc' = [loc EXCEPT !.check = checksum(<<loc.padding_byte>>, loc.check), !.i = @ + 1]
    /\ UNCHANGED <<call, pc, result, flasher, chip, flash_size, timeout, baud, pending,
                   ret, trace, steps, outstanding, flushed, synced, rx, mem, busy>>

\* the request of block_command: BlockParams, the declared length, the bytes
\* the encoder is given after the params, and the checksum slot
BlockFrame(command_op, data, padding, padding_byte, sequence, check) ==
    [ev |-> "write", op |-> command_op,
     args |-> <<Len(data) + padding, sequence, 0, 0>>,
     data |-> <<Len(data), padding, padding_byte, (16 + Len(data) + padding) % 65536>>,
     payload |-> data \o [k \in 1..padding |-> padding_byte],
     check |-> check]

\* block_command, lines 250-262: the request is sent with the checksum
block_send ==
    /\ pc = "block_pad"
    /\ loc.i = loc.padding
    /\ loc.padding <= FLASH_WRITE_SIZE
    /\ command(BlockFrame(loc.command_op, loc.data, loc.padding, loc.padding_byte, 0,
                          loc.check),
               "block_sent")
    /\ UNCHANGED <<call, flasher, chip, flash_size, timeout, baud, ret, loc, steps, synced>>

\* block_command, line 263
block_return ==
    /\ pc = "block_sent"
    /\ pending = 0
    /\ Return(OkResult)
    /\ UNCHANGED <<call, flasher, chip, flash_size, timeout, baud, ret, loc, trace, steps,
                   outstanding, flushed, synced, rx, mem, busy>>

BlockNext ==
    \/ block_check
    \/ block_pad
    \/ block_send
    \/ command_response
    \/ block_return

BlockSpec == BlockInit /\ [][BlockNext]_vars

\* the XOR of a seed and of all the bytes of bs, bit by bit: bit k is the parity
\* of the bytes that have it set
FoldXor(bs, seed) ==
    LET p(k) == ((Bit(seed, k) + Cardinality({i \in DOMAIN bs : Bit(bs[i], k) = 1})) % 2)
                * 2 ^ k
    IN  p(0) + p(1) + p(2) + p(3) + p(4) + p(5) + p(6) + p(7)

\* the request block_command has written
BlockWritten == call = "block_command" /\ trace # <<>>

\* C12: the checksum block_command sends is checksum(data ++ padding, 0xEF),
\* the XOR fold of those bytes; checksum of a concatenation is checksum of the
\* second part seeded with checksum of the first; an even number of pad bytes
\* leaves checksum(data, 0xEF).
C12_BlockChecksum ==
    BlockWritten =>
        LET f == trace[1]
            bs == f.payload
        IN  /\ bs = loc.data \o [k \in 1..loc.padding |-> loc.padding_byte]
            /\ f.check = checksum(bs, CHECKSUM_INIT)
            /\ f.check = FoldXor(bs, CHECKSUM_INIT)
            /\ f.check \in 0..255
            /\ \A k \in 0..Len(bs), seed \in {0, CHECKSUM_INIT} :
                   checksum(bs, seed) =
                       checksum(SubSeq(bs, k + 1, Len(bs)), checksum(SubSeq(bs, 1, k), seed))
            /\ loc.padding % 2 = 0 => f.check = checksum(loc.data, CHECKSUM_INIT)

\* C12 witness: a block of two bytes and two pad bytes 0xFF has been sent with
\* the checksum of its data, 0xEF ^ 0x55 ^ 0xFF
C12_Witness ==
    /\ BlockWritten
    /\ loc.data = <<85, 255>>
    /\ loc.padding = 2
    /\ loc.padding_byte = 255
    /\ trace[1].check = 69

\* an odd number of pad bytes 0xFF changes the checksum
C12_OddPadding ==
    /\ BlockWritten
    /\ loc.padding = 3
    /\ loc.padding_byte = 255
    /\ trace[1].check # checksum(loc.data, CHECKSUM_INIT)

\* ------------------------------------------------------------ ram block count

\* the MemBegin of the ram segment in hand
SegmentMemBegin == trace[LastIndexOf(MemBegin)]

\* the MemBegin of a ram segment announces ceil((len + pad) / 0x1800) blocks
\* of 0x1800 bytes at the segment's address, and the MemData blocks are
\* numbered from 0: the part of C13 that holds for any length
C13_Announced ==
    (call = "load_elf_to_ram" /\ pc = "ram_block") =>
        LET len == loc.segs[loc.si].len
            pad == 4 - (len % 4)
            fs == FramesAfter(MemBegin)
        IN  /\ SegmentMemBegin =
                   Frame(MemBegin, <<len, CeilDiv(len + pad, 6144), 6144,
                                     loc.segs[loc.si].addr>>, <<>>)
            /\ \A k \in DOMAIN fs : fs[k].op = MemData /\ fs[k].args[2] = k - 1
            /\ Len(fs) <= SegmentMemBegin.args[2]

\* C13: for a ram segment of any length the MemData commands emitted are as
\* many as the block count its MemBegin announced, ceil((len + pad) / 0x1800),
\* numbered 0, 1, ... in increasing order.
C13_MemDataCount ==
    RamSegmentSent =>
        LET len == loc.segs[loc.si].len
            pad == 4 - (len % 4)
            fs == FramesAfter(MemBegin)
        IN  /\ SegmentMemBegin.args[2] = CeilDiv(len + pad, 6144)
            /\ Len(fs) = SegmentMemBegin.args[2]
            /\ \A k \in DOMAIN fs : fs[k].op = MemData /\ fs[k].args[2] = k - 1

\* C13 witness: the MemBegin of an empty segment announced one block and the
\* segment is complete with none sent
C13_Witness ==
    /\ RamSegmentSent
    /\ loc.segs[loc.si].len = 0
    /\ SegmentMemBegin.args[2] = 1
    /\ FramesAfter(MemBegin) = <<>>

\* a segment whose blocks are as many as announced
C13_CountAgrees ==
    /\ RamSegmentSent
    /\ loc.segs[loc.si].len = 6146
    /\ SegmentMemBegin.args[2] = 2
    /\ Len(FramesAfter(MemBegin)) = 2

\* ------------------------------------------------------------ sync echoes

\* the first sync attempt, answered by an acknowledgement of status 0 and six
\* more, is about to return Ok to start_connection
SevenAcksSyncReturns ==
    /\ call = "connect"
    /\ ENABLED sync_done
    /\ loc.attempts = 0
    /\ loc.sent = 7

\* C14: when the device answers the Sync request with an acknowledgement of
\* status 0 and six more and then stays silent, start_connection returns Ok
\* after one attempt with one Sync request written, and the responses its reads
\* consumed are exactly those seven: none is left unread, and every other read
\* timed out.
C14_SevenAcks ==
    /\ SevenAcksSyncReturns =>
        /\ synced
        /\ SyncCount = 1
        /\ loc.consumed = 7
        /\ rx = <<>>
        /\ loc.reads = loc.consumed + SYNC_POLLS
        /\ steps = <<"reset_to_flash">>
    /\ (call = "connect" /\ pc \in {"sync_poll", "sync_drain"} /\ loc.sent = 7) =>
        /\ loc.consumed + Len(rx) = 7
        /\ loc.consumed <= loc.reads

\* C14 witness: that sync attempt has consumed the seven responses
C14_Witness == SevenAcksSyncReturns /\ loc.consumed = 7 /\ loc.reads = 107

\* C14 read as a count of read_response calls: seven calls in all
C14_SevenCalls == SevenAcksSyncReturns => loc.reads = 7

\* ------------------------------------------------------------ spi_command

\* the request that kicks the SPI controller
KickFrame == Frame(WriteReg, <<cmd(SPI_REGISTERS(chip)), 262144, MASK_ALL, 0>>, <<>>)

\* that request has been written
Kicked == \E i \in DOMAIN trace : trace[i].op = WriteReg /\ trace[i] = KickFrame

\* where in trace that request is
KickIndex == CHOOSE i \in DOMAIN trace : trace[i].op = WriteReg /\ trace[i] = KickFrame

\* how many reads of register reg are written after place k of trace
ReadsAfter(k, reg) ==
    Cardinality({i \in (k + 1)..Len(trace) :
        trace[i].op = ReadReg /\ trace[i].args[1] = reg})

\* the reads of usr written after the kick
UsrPolls == ReadsAfter(KickIndex, usr(SPI_REGISTERS(chip)))

\* w0 has been read
W0Read == ReadsAfter(0, w0(SPI_REGISTERS(chip))) > 0

\* C15: after the kick spi_command fails with Timeout after exactly 11 reads of
\* usr that all have bit 18 set, without reading w0; when read k of 1..11 is the
\* first with bit 18 clear the polling stops after exactly k reads and w0 is
\* read next.
C15_SpiPoll ==
    (call = "connect" /\ Len(steps) = 4 /\ Kicked) =>
        LET k == KickIndex
            polls == ReadsAfter(k, usr(SPI_REGISTERS(chip)))
            w0read == W0Read
        IN  /\ polls <= 11
            /\ result.kind = "Timeout" =>
                /\ polls = 11
                /\ loc.i = 11
                /\ Bit(ret, 18) = 1
                /\ ~w0read
            /\ (pc = "spi_poll_check" /\ pending = 0) => polls = loc.i + 1
            /\ (pc = "spi_poll" /\ pending = 0) => (polls = loc.i /\ loc.i <= 10)
            /\ (pc = "spi_result" /\ pending = 0) =>
                /\ Bit(ret, 18) = 0
                /\ polls = loc.i + 1
                /\ ~w0read
                /\ ENABLED spi_result
            /\ w0read =>
                /\ polls = loc.i + 1
                /\ polls \in 1..11
                /\ trace[k + polls + 1] = Frame(ReadReg, <<w0(SPI_REGISTERS(chip))>>, <<>>)

\* C15 witness: eleven reads of usr with bit 18 set have ended in Timeout
C15_Witness ==
    /\ call = "connect"
    /\ result.kind = "Timeout"
    /\ Kicked
    /\ UsrPolls = 11

\* the eleventh read of usr is the first with bit 18 clear and w0 is read
C15_EleventhClear ==
    /\ call = "connect"
    /\ Kicked
    /\ W0Read
    /\ UsrPolls = 11

\* ------------------------------------------------------------ spi_command: save and restore

\* spi_command has returned Ok to flash_detect
SpiReturnedOk == call = "connect" /\ pc = "flash_detect_bind" /\ pending = 0

\* what spi_command has written when it returns Ok: it begins with the reads
\* of usr and usr2 and ends with the read of w0 and the two writes that
\* restore usr and usr2; the device's usr and usr2 are as before the call
SpiSavedAndRestored ==
    SpiReturnedOk =>
        LET r == SPI_REGISTERS(chip)
            n == Len(trace)
            first == SyncCount + 6
        IN  /\ trace[first] = Frame(ReadReg, <<usr(r)>>, <<>>)
            /\ trace[first + 1] = Frame(ReadReg, <<usr2(r)>>, <<>>)
            /\ \A i \in 1..(first - 1) : trace[i].op # WriteReg
            /\ trace[n - 2] = Frame(ReadReg, <<w0(r)>>, <<>>)
            /\ trace[n - 1] = Frame(WriteReg, <<usr(r), loc.old_spi_usr, MASK_ALL, 0>>, <<>>)
            /\ trace[n] = Frame(WriteReg, <<usr2(r), loc.old_spi_usr2, MASK_ALL, 0>>, <<>>)
            /\ \E v \in DevRegVals :
                /\ loc.old_spi_usr = v
                /\ loc.old_spi_usr2 = v + 1
                /\ mem[usr(r)] = v
                /\ mem[usr2(r)] = v + 1

\* the word spi_command returns is the one the read of w0 gave, kept through
\* the restore
SpiReturnsW0 ==
    /\ (pc = "spi_restore_usr" /\ pending = 0 /\ pc' = "spi_restore_usr2")
           => loc'.flash_id = ret
    /\ (pc = "spi_restore_usr2" /\ pc' \in {"spi_restore_usr2", "flash_detect_bind"})
           => loc'.flash_id = loc.flash_id
    /\ (pc = "flash_detect_bind" /\ pc' = "flash_detect_bind")
           => loc'.flash_id = loc.flash_id

\* C16: a spi_command that returns Ok has first read usr and usr2, its last
\* two writes, after the read of w0, put the saved values back into usr and
\* then usr2, the device's usr and usr2 hold what they held before the call,
\* and the value returned is the word read from w0.
C16_SpiRestores == [](SpiSavedAndRestored) /\ [][SpiReturnsW0]_vars

\* C16 witness: spi_command has returned the flash ID 0x154000 with usr and
\* usr2 restored
C16_Witness ==
    /\ SpiReturnedOk
    /\ loc.flash_id = 1392640
    /\ mem[usr(SPI_REGISTERS(chip))] = loc.old_spi_usr
    /\ mem[usr2(SPI_REGISTERS(chip))] = loc.old_spi_usr2
    /\ loc.old_spi_usr # loc.old_spi_usr2

\* ------------------------------------------------------------ enable_flash

\* the request enable_flash is to write on chip c
EnableFlashRequest(c) ==
    IF c = "Esp8266"
    THEN [ev |-> "write", op |-> 2, args |-> <<0, 0, 1024, 0>>, data |-> <<>>]
    ELSE [ev |-> "write", op |-> 13, args |-> <<0, 0, 0, 0, 0>>, data |-> <<>>]

\* enable_flash has returned Ok to load_elf_to_flash
EnableFlashReturned == call = "load_elf_to_flash" /\ pc = "flash_image" /\ pending = 0

C17_WitnessEsp8266 == EnableFlashReturned /\ chip = "Esp8266" /\ trace[1].op = FlashBegin
C17_WitnessEsp32c3 == EnableFlashReturned /\ chip = "Esp32c3" /\ trace[1].op = SpiAttach

\* ------------------------------------------------------------ errors of a load

Loading == call \in {"load_elf_to_ram", "load_elf_to_flash"}
LoadOps == {MemBegin, MemData, FlashBegin, FlashData}

\* a load that has returned a device or transport error has written nothing
\* after the request that failed, and does nothing more
LoadErrorIsFinal ==
    (Loading /\ pc = "done" /\ result.kind \in {"RomError", "IoError"}) =>
        /\ ~ENABLED LoadNext
        /\ \A i \in DOMAIN trace : trace[i].op # MemEnd /\ trace[i] # Event("reset")
        /\ \A i \in DOMAIN trace : trace[i].op = FlashEnd => i = Len(trace)
        /\ result.kind = "RomError" =>
            /\ trace # <<>>
            /\ trace[Len(trace)].op \in LoadOps \cup {SpiAttach}
            /\ result.code \in RomErrorCodes
            /\ outstanding = 0

\* the answer of status 1 to a request of a load, or a transport failure on
\* it, ends the load at once with that error
LoadErrorReturns ==
    (Loading /\ pending \in LoadOps) =>
        /\ (rx # <<>> /\ rx' = Tail(rx) /\ Head(rx).return_op = pending
            /\ Head(rx).status = 1)
               => (pc' = "done" /\ result' = Err("RomError", Head(rx).error) /\ trace' = trace)
        /\ result'.kind = "IoError" => (pc' = "done" /\ trace' = trace)
        /\ pc' = "done" => result'.kind \in {"RomError", "IoError"}

\* C18: a status 1 answer to a MemBegin, MemData, FlashBegin or FlashData of a
\* load, or a transport failure on it, makes the load return that error at
\* once: no further request is written, no MemEnd or FlashEnd, and
\* load_elf_to_flash does not reset the device.
C18_LoadErrors == [](LoadErrorIsFinal) /\ [][LoadErrorReturns]_vars

\* C18 witness: the second FlashData of a segment was answered with status 1
\* and load_elf_to_flash has returned the error
C18_Witness ==
    /\ call = "load_elf_to_flash"
    /\ pc = "done"
    /\ result = Err("RomError", 6)
    /\ trace[Len(trace)].op = FlashData
    /\ trace[Len(trace)].args[2] = 1
    /\ Len(loc.segs) = 2
    /\ loc.si = 1

\* load_elf_to_ram has returned the error of a MemBegin
C18_WitnessRam ==
    /\ call = "load_elf_to_ram"
    /\ pc = "done"
    /\ result.kind = "RomError"
    /\ trace[Len(trace)].op = MemBegin

\* ------------------------------------------------------------ the read timeout of connect

\* connect is inside chip_detect: start_connection and set_timeout are over
\* and the chip is not yet bound
InChipDetect ==
    call = "connect" /\ pc \in {"chip_detect", "chip_detect_reg2", "chip_detect_bind"}

\* connect is inside enable_flash or flash_detect
InFlashSetup == call = "connect" /\ pc # "done" /\ Len(steps) \in {3, 4}

\* the ReadReg requests of chip_detect that have been written
ChipDetectReads ==
    {i \in DOMAIN trace : trace[i].op = ReadReg
                          /\ trace[i].args[1] \in {UART_DATE_REG_ADDR, UART_DATE_REG2_ADDR}}

\* C19 as stated: the two ReadReg commands of chip_detect run under the
\* timeout the port had before, and the timeout is 3 s from enable_flash on.
C19_RaisedAfterChipDetect ==
    /\ InChipDetect => timeout = PORT_TIMEOUT
    /\ InFlashSetup => timeout = CONNECT_TIMEOUT

\* C19 amended: connect raises the read timeout to 3 s between
\* start_connection and chip_detect; the two ReadReg commands of chip_detect,
\* enable_flash and flash_detect all run under the 3 s timeout, and
\* set_timeout is recorded before the first ReadReg.
C19_RaisedBeforeChipDetect ==
    /\ (call = "connect" /\ pc = "set_timeout") => timeout = PORT_TIMEOUT
    /\ InChipDetect => timeout = CONNECT_TIMEOUT
    /\ InFlashSetup => timeout = CONNECT_TIMEOUT
    /\ call = "connect" =>
        \A i \in ChipDetectReads :
            \E j \in 1..(i - 1) : trace[j] = Event("set_timeout")

\* C19 witness: the second ReadReg of chip_detect has been answered while the
\* timeout is 3 s
C19_Witness ==
    /\ InChipDetect
    /\ pc = "chip_detect_bind"
    /\ pending = 0
    /\ Cardinality(ChipDetectReads) = 2
    /\ timeout = CONNECT_TIMEOUT

\* ------------------------------------------------------------ lengths of a block request

\* the requests written by block_command
BlockRequests == {i \in DOMAIN trace : trace[i].op \in {MemData, FlashData}}

\* the bytes block_command encodes after the header: the 16 bytes of
\* BlockParams, the data, and the slice [0..padding] of the padding buffer
EncodedLen(f) == 16 + f.data[1] + f.data[2]

\* C20: in every MemData of load_elf_to_ram (at most 0x1800 data bytes, at
\* most 4 pad bytes) and every FlashData of load_elf_to_flash (data plus
\* padding 0x400), the declared 16-bit length is the number of payload bytes
\* encoded, 16 + data.len() + pad_len, without overflow, BlockParams.size is
\* data.len() + pad_len, and pad_len fits the 0x400-byte padding buffer.
C20_BlockLengths ==
    Loading =>
        \A i \in BlockRequests :
            LET f == trace[i]
            IN  /\ f.data[4] = EncodedLen(f)
                /\ EncodedLen(f) < 65536
                /\ f.args[1] = f.data[1] + f.data[2]
                /\ f.data[2] <= FLASH_WRITE_SIZE
                /\ f.op = MemData =>
                       (call = "load_elf_to_ram" /\ f.data[1] <= MAX_RAM_BLOCK_SIZE
                        /\ f.data[2] <= 4)
                /\ f.op = FlashData =>
                       (call = "load_elf_to_flash"
                        /\ f.data[1] + f.data[2] = FLASH_WRITE_SIZE)

\* C20 witness: the last MemData of a segment of 0x1802 bytes, 2 data bytes
\* and 2 pad bytes, declared with 20 bytes, after a full block of 0x1800
C20_Witness ==
    /\ call = "load_elf_to_ram"
    /\ \E i \in BlockRequests :
        /\ trace[i].data = <<2, 2, 0, 20>>
        /\ trace[i].args = <<4, 1, 0, 0>>
        /\ i > 1
        /\ trace[i - 1].op = MemData
        /\ trace[i - 1].data = <<MAX_RAM_BLOCK_SIZE, 0, 0, 16 + MAX_RAM_BLOCK_SIZE>>

\* a FlashData of one data byte and 0x3ff bytes of padding
C20_WitnessFlash ==
    /\ call = "load_elf_to_flash"
    /\ \E i \in BlockRequests :
        trace[i].data = <<1, FLASH_WRITE_SIZE - 1, 255, 16 + FLASH_WRITE_SIZE>>

\* ------------------------------------------------------------ get_erase_size

\* the largest size, in sectors, and the largest start sector of a call
MaxSectors == 33
MaxStart == 17

\* sizes at, just above and just below every sector boundary up to MaxSectors
EraseSizes ==
    {n \in {k * FLASH_SECTOR_SIZE + d : k \in 0..MaxSectors, d \in {0, 1, FLASH_SECTOR_SIZE - 1}} :
        n <= MaxSectors * FLASH_SECTOR_SIZE}

\* offsets on and inside every sector up to MaxStart
EraseOffsets == {s * FLASH_SECTOR_SIZE + e : s \in 0..MaxStart, e \in {0, 2049}}

\* a call of get_erase_size(offset, size)
EraseInit ==
    /\ call = "get_erase_size"
    /\ pc = "get_erase_size"
    /\ result = NoResult
    /\ flasher = TRUE
    /\ chip = "Esp8266"
    /\ flash_size = "Flash4MB"
    /\ timeout = CONNECT_TIMEOUT
    /\ baud = DEFAULT_BAUD
    /\ pending = 0
    /\ ret = 0
    /\ \E offset \in EraseOffsets, size \in EraseSizes :
        loc = [LocInit EXCEPT !.offset = offset, !.size = size]
    /\ trace = <<>>
    /\ steps = <<>>
    /\ outstanding = 0
    /\ flushed = FALSE
    /\ synced = TRUE
    /\ rx = <<>>
    /\ mem = [a \in SavedRegs |-> 0]
    /\ busy = FALSE

\* get_erase_size, lines 493-507: the call returns its value
get_erase_size_return ==
    /\ call = "get_erase_size"
    /\ pc = "get_erase_size"
    /\ ret' = get_erase_size(loc.offset, loc.size)
    /\ Return(OkResult)
    /\ UNCHANGED <<call, flasher, chip, flash_size, timeout, baud, loc, trace, steps,
                   outstanding, flushed, synced, rx, mem, busy>>

EraseNext == get_erase_size_return

EraseSpec == EraseInit /\ [][EraseNext]_vars

\* the reference computation of the erase size
EraseSectors(size) == CeilDiv(size, 4096)
EraseHead(offset, size) ==
    LET start_sector == offset \div 4096
        to_block_end == 16 - (start_sector % 16)
    IN  IF to_block_end <= EraseSectors(size) THEN to_block_end ELSE EraseSectors(size)
EraseReference(offset, size) ==
    IF EraseSectors(size) < 2 * EraseHead(offset, size)
    THEN CeilDiv(EraseSectors(size), 2) * 4096
    ELSE (EraseSectors(size) - EraseHead(offset, size)) * 4096

EraseReturned == call = "get_erase_size" /\ pc = "done"

\* C21: for every offset and size, get_erase_size(offset, size) is the
\* reference computation (sectors = ceil(size/0x1000), start_sector =
\* offset/0x1000, head = min(16 - start_sector mod 16, sectors), ceil(sectors/2)
\* sectors if sectors < 2*head, else sectors - head sectors);
\* get_erase_size(0, 0x1000) = 0x1000, get_erase_size(0, 0x20000) = 0x10000,
\* and the result is a multiple of 0x1000 of at most sectors*0x1000.
C21_EraseSizeReference ==
    EraseReturned =>
        /\ ret = EraseReference(loc.offset, loc.size)
        /\ ret % 4096 = 0
        /\ ret >= 0
        /\ ret <= EraseSectors(loc.size) * 4096
        /\ (loc.offset = 0 /\ loc.size = 4096) => ret = 4096
        /\ (loc.offset = 0 /\ loc.size = 131072) => ret = 65536

\* C21 witness: get_erase_size(0, 0x20000) has returned 0x10000, the sectors
\* past the first block
C21_Witness ==
    /\ EraseReturned
    /\ loc.offset = 0
    /\ loc.size = 131072
    /\ ret = 65536

\* get_erase_size(0x5000, 0x4001) has returned 0x3000 on the head path: five
\* sectors, eleven to the end of the block
C21_WitnessHead ==
    /\ EraseReturned
    /\ loc.offset = 20480
    /\ loc.size = 16385
    /\ ret = 12288

\* get_erase_size(0xf801, 0x2000) has returned 0x1000: the head is the one
\* sector left in the block
C21_WitnessBlockEnd ==
    /\ EraseReturned
    /\ loc.offset = 63489
    /\ loc.size = 8192
    /\ ret = 4096

====
